---------------------------- MODULE Spec2Model ----------------------------
(***************************************************************************)
(* Model of the CBM_ETL incremental-load engine.                            *)
(*                                                                         *)
(*   SpecDag   the dependency-graph scheduler, DAGOrchestrator             *)
(*             (src/src/utils/dag_orchestrator.py)                         *)
(*                                                                         *)
(*   SpecLoad  the load pipeline of one table, load_flow_simple           *)
(*             (src/src/flows/load_flow_simple.py) and its tasks           *)
(*                                                                         *)
(*   SpecValidate  the same scheduler, started from dependency rows that   *)
(*             may name tables that are not loaded                         *)
(*                                                                         *)
(*   SpecExtract  the resilience around the source connection: the retry   *)
(*             wrapper of extract_to_parquet, and the circuit breaker of   *)
(*             get_progress_connection (src/src/utils/resilience.py,       *)
(*             src/src/utils/progress_breaker.py)                          *)
(*                                                                         *)
(* Table names are natural numbers; the order of the numbers is the order  *)
(* of the names.  Tables are the active rows of config.ETL_Tables, Missing *)
(* are tables that are not active (IsActive = 0), which the rows of        *)
(* config.ETL_Dependencies may still refer to.                             *)
(***************************************************************************)
EXTENDS Integers, Sequences, FiniteSets, TLC

VARIABLES
    \* ---- configuration database read by load_config
    cfgPriority,        \* Priority column computed by the query, per table
    cfgDependencies,    \* DependsOn rows per table, in the order the rows come
    \* ---- DAGOrchestrator
    stop_on_critical,   \* self.stop_on_critical
    nodes,              \* keys of self.nodes, in dict (insertion) order
    dependencies,       \* node.dependencies, per node (a list)
    status,             \* node.status
    retry_count,        \* node.retry_count
    levels,             \* local `levels` of execute
    level_num,          \* index of the level being run
    pos,                \* index in sorted_tables of the node being handled
    completed,          \* local set `completed`
    failed,             \* local set `failed`
    skipped,            \* local set `skipped`
    dagPc,              \* position of execute
    raised,             \* exception that left execute, or "none"
    load_calls,         \* number of load_flow_simple calls, per table
    handled,            \* history: nodes in the order the level loop took them
    load_error,         \* stage at which the latest load_flow_simple call
                        \*   raised, "none" if it returned or none was made
    node_sleeps,        \* lengths of the time.sleep calls of the latest
                        \*   execute_node call
    \* ---- source table (Progress) and the clock
    source,             \* rows of the source table, by primary key
    now,                \* wall clock, in UTC
    utc_offset,         \* local time of the host minus UTC
    \* ---- row of config.ETL_Tables of the table
    LastSuccessTs,
    LookbackInterval,
    table_found,        \* ETL_Tables has a row for the table
    included_found,     \* ETL_Columns has an included column for it
    PrimaryKeyCols,     \* the PrimaryKeyCols text of the table's row
    DateModifPrecision,
    HasTimestamps,
    \* ---- load_flow_simple
    flowPc,             \* stage the run is about to execute, or how it ended
    mode,               \* "full" or "incremental"
    where_clause,       \* lower bound on the modification time, or NoBound
    raw_cache,          \* <table>_raw.parquet
    transformed_cache,  \* <table>_transformed.parquet
    staging,            \* stg.<table>, by primary key
    ods,                \* the destination table, by primary key
    \* ---- history of the runs
    wrote_last_success, \* the current run has executed update_last_success
    source_changed,     \* the source changed after the last Extract
    modified_since_extract, \* keys of the rows written after the last Extract
    snapshot,           \* destination at the end of a successful incremental
                        \*   run that saw the source as it is now, or NoSnapshot
    unchanged_runs,     \* successful incremental runs since, source unchanged
    runs,               \* pipeline runs started
    writes,             \* writes of the source system
    \* ---- CircuitBreaker instances, by instance
    cb_state,           \* state.state: "closed", "open" or "half_open"
    failures,           \* state.failures
    last_failure_time,  \* state.last_failure_time, NULL for None
    failure_threshold,  \* state.failure_threshold
    success_threshold,  \* state.success_threshold
    timeout,            \* state.timeout, the cooldown
    clock,              \* datetime.now(), read by the breaker; sleeps advance it
    \* ---- retry_with_backoff around extract_to_parquet
    max_attempts,
    initial_delay,
    backoff_factor,
    max_delay,
    extPc,              \* position of the wrapper call
    ext_table,          \* table_name of the call
    attempt,            \* loop variable `attempt`
    delay,              \* local `delay`
    outcome,            \* exception raised by the latest invocation, or NoError
    propagated,         \* exception that left the wrapper, or NoError
    \* ---- history of the calls
    sleeps,             \* lengths of the time.sleep calls of the wrapper call
    invocations,        \* invocations of the wrapped function in the call
    connect_calls,      \* calls of the connection factory in the call
    cb_prev,            \* breaker state when the latest breaker call began
    call_result,        \* how the latest breaker call ended
    streak,             \* failed breaker calls in a row since the breaker was
                        \*   closed with no failure counted, or NULL
    opened_during,      \* table whose Extract made the failed call that left
                        \*   a breaker open, no call having succeeded since;
                        \*   0: none
    opened_at,          \* time of that failed call, or NULL
    extracts,           \* wrapper calls started
    \* ---- normalize_dataframe and compute_hashdiff on two versions of a row
    raw_rows,           \* the two versions as extracted, each a row of cells
    normalized_rows,    \* the versions after normalize_dataframe
    hash_inputs,        \* per version, the text hash_row gives to the digest
    hashPc,             \* "raw", "normalized" or "hashed"
    \* ---- the MERGE statement on tables whose rows may share or lack a key
    stg_table,          \* rows of stg.<table>, in insertion order
    ods_table,          \* rows of the destination table
    merge_mode,         \* mode of the run
    mergePc,            \* "idle", "staged", "merged" or "raised"
    merge_runs,         \* runs started
    \* ---- threads that call _progress_circuit at the same time
    callerPc,           \* per thread: "idle", or "in_call" inside func
    admitted_in,        \* per thread in func: the breaker's state when
                        \*   CircuitBreaker.call let it through
    race_calls          \* calls of CircuitBreaker.call started

dagVars == <<cfgPriority, cfgDependencies, stop_on_critical, nodes, dependencies,
             status, retry_count, levels, level_num, pos, completed, failed,
             skipped, dagPc, raised, load_calls, handled, load_error,
             node_sleeps>>

loadVars == <<source, now, utc_offset, LastSuccessTs, LookbackInterval,
              DateModifPrecision, HasTimestamps, table_found, included_found,
              PrimaryKeyCols, flowPc, mode, where_clause, raw_cache,
              transformed_cache, staging, ods, wrote_last_success,
              source_changed, modified_since_extract, snapshot, unchanged_runs,
              runs, writes>>

breakerVars == <<cb_state, failures, last_failure_time>>

breakerParams == <<failure_threshold, success_threshold, timeout>>

retryParams == <<max_attempts, initial_delay, backoff_factor, max_delay>>

resVars == <<breakerVars, breakerParams, retryParams, clock, extPc, ext_table,
             attempt, delay, outcome, propagated, sleeps, invocations,
             connect_calls, cb_prev, call_result, streak, opened_during,
             opened_at, extracts>>

hashVars == <<raw_rows, normalized_rows, hash_inputs, hashPc>>

mergeVars == <<stg_table, ods_table, merge_mode, mergePc, merge_runs>>

raceVars == <<callerPc, admitted_in, race_calls>>

vars == <<dagVars, loadVars, resVars, hashVars, mergeVars, raceVars>>

-----------------------------------------------------------------------------
\* Bounds of the model
MaxDeps == 2        \* longest dependency list of one table
MaxDepRows == 3     \* rows of config.ETL_Dependencies

\* TableNode.max_retries
max_retries == 2

Tables == {1, 2, 3}
Missing == {4, 5}
Names == Tables \cup Missing
Priorities == {"critical", "high", "normal"}

Range(s) == {s[i] : i \in 1..Len(s)}

\* mutant: a wait that does not grow with the attempt
Power_flat(b, n) == b

RECURSIVE Power(_, _)
Power(b, n) == IF n = 0 THEN 1 ELSE b * Power(b, n - 1)

\* Lists of distinct names: UQ_Dependency makes (TableName, DependsOn) unique
DistinctSeqs(S, n) ==
    UNION {{s \in [1..k -> S] : \A i, j \in 1..k : i # j => s[i] # s[j]} : k \in 0..n}

RECURSIVE SumLen(_, _)
SumLen(f, S) ==
    IF S = {} THEN 0
    ELSE LET x == CHOOSE y \in S : TRUE IN Len(f[x]) + SumLen(f, S \ {x})

-----------------------------------------------------------------------------
\* ---- load_config: ORDER BY Priority, TableName (Priority compared as text)

PriorityText(p) == CASE p = "critical" -> 1 [] p = "high" -> 2 [] OTHER -> 3

\* mutant: ORDER BY Priority, TableName DESC
OrderBeforeNameDesc(a, b) ==
    \/ PriorityText(cfgPriority[a]) < PriorityText(cfgPriority[b])
    \/ PriorityText(cfgPriority[a]) = PriorityText(cfgPriority[b]) /\ a > b

OrderBefore(a, b) ==
    \/ PriorityText(cfgPriority[a]) < PriorityText(cfgPriority[b])
    \/ PriorityText(cfgPriority[a]) = PriorityText(cfgPriority[b]) /\ a < b

\* the rows of the query, in the order of its ORDER BY clause
QueryRows ==
    CHOOSE s \in [1..Cardinality(Tables) -> Tables] :
        \A i, j \in 1..Cardinality(Tables) : i < j => OrderBefore(s[i], s[j])

-----------------------------------------------------------------------------
\* ---- _validate_dag: the loop that removes missing dependencies.
\* `for dep in node.dependencies` walks the list by index while
\* node.dependencies.remove(dep) shortens it.

RemoveFirst(l, x) ==
    LET i == CHOOSE k \in 1..Len(l) : l[k] = x /\ \A m \in 1..(k - 1) : l[m] # x
    IN  SubSeq(l, 1, i - 1) \o SubSeq(l, i + 1, Len(l))

RECURSIVE RemoveMissing(_, _, _)
RemoveMissing(l, i, all_tables) ==
    IF i > Len(l) THEN l
    ELSE IF l[i] \notin all_tables
         THEN RemoveMissing(RemoveFirst(l, l[i]), i + 1, all_tables)
         ELSE RemoveMissing(l, i + 1, all_tables)

validate_deps(deps, all_tables) ==
    [n \in Tables |-> RemoveMissing(deps[n], 1, all_tables)]

\* ---- _has_cycle: depth-first search with a recursion stack.
\* self.nodes[node_name] raises KeyError for a name that is no node.
RECURSIVE visit(_, _, _, _, _)
RECURSIVE visit_deps(_, _, _, _, _, _)
visit(node_name, visited, rec_stack, deps, all_tables) ==
    IF node_name \notin all_tables
    THEN [out |-> "KeyError", visited |-> visited \cup {node_name}]
    ELSE visit_deps(node_name, 1, visited \cup {node_name},
                    rec_stack \cup {node_name}, deps, all_tables)

visit_deps(node_name, i, visited, rec_stack, deps, all_tables) ==
    IF i > Len(deps[node_name])
    THEN [out |-> "False", visited |-> visited]
    ELSE LET dep == deps[node_name][i] IN
         IF dep \notin visited
         THEN LET r == visit(dep, visited, rec_stack, deps, all_tables) IN
              IF r.out # "False" THEN r
              ELSE visit_deps(node_name, i + 1, r.visited, rec_stack, deps, all_tables)
         ELSE IF dep \in rec_stack
              THEN [out |-> "True", visited |-> visited]
              ELSE visit_deps(node_name, i + 1, visited, rec_stack, deps, all_tables)

RECURSIVE has_cycle_from(_, _, _, _)
has_cycle_from(order, i, visited, deps) ==
    IF i > Len(order) THEN "False"
    ELSE IF order[i] \in visited THEN has_cycle_from(order, i + 1, visited, deps)
         ELSE LET r == visit(order[i], visited, {}, deps, Range(order)) IN
              IF r.out # "False" THEN r.out
              ELSE has_cycle_from(order, i + 1, r.visited, deps)

\* "True", "False" or "KeyError"
has_cycle(order, deps) == has_cycle_from(order, 1, {}, deps)

\* outcome of _validate_dag on the nodes just created: the exception or "none"
validate_dag(order, deps) ==
    LET r == has_cycle(order, validate_deps(deps, Range(order))) IN
    CASE r = "True" -> "ValueError"
      [] r = "KeyError" -> "KeyError"
      [] OTHER -> "none"

-----------------------------------------------------------------------------
\* ---- get_execution_levels

\* the inner loop over current_level: delete the name, then lower the degree
\* of every name still in in_degree that lists it as a dependency
\* mutant: the degree of every remaining name is lowered, whether or not it
\* lists the removed name as a dependency
RECURSIVE peel_level_any(_, _, _, _, _)
peel_level_any(current_level, i, present, in_degree, deps) ==
    IF i > Len(current_level) THEN [present |-> present, in_degree |-> in_degree]
    ELSE LET name == current_level[i]
             left == present \ {name}
         IN  peel_level_any(current_level, i + 1, left,
                 [o \in DOMAIN in_degree |->
                     IF o \in left THEN in_degree[o] - 1 ELSE in_degree[o]],
                 deps)

RECURSIVE peel_level(_, _, _, _, _)
peel_level(current_level, i, present, in_degree, deps) ==
    IF i > Len(current_level) THEN [present |-> present, in_degree |-> in_degree]
    ELSE LET name == current_level[i]
             left == present \ {name}
         IN  peel_level(current_level, i + 1, left,
                 [o \in DOMAIN in_degree |->
                     IF o \in left /\ name \in Range(deps[o])
                     THEN in_degree[o] - 1 ELSE in_degree[o]],
                 deps)

RECURSIVE peel(_, _, _, _, _)
peel(order, present, in_degree, deps, acc) ==
    IF present = {} THEN [levels |-> acc, error |-> "none"]
    ELSE LET current_level ==
                 SelectSeq(order, LAMBDA n : n \in present /\ in_degree[n] = 0)
         IN  IF current_level = <<>>
             THEN [levels |-> acc, error |-> "ValueError"]
             ELSE LET r == peel_level(current_level, 1, present, in_degree, deps)
                  IN  peel(order, r.present, r.in_degree, deps,
                           Append(acc, current_level))

get_execution_levels(order, deps) ==
    peel(order, Range(order), [n \in Range(order) |-> Len(deps[n])], deps, <<>>)


-----------------------------------------------------------------------------
\* ---- The load pipeline of one table.
\* The table has a primary-key column, a text column `val` and the
\* modification-time column named by DateModifCol.  Times are clock ticks.

MaxClock == 1       \* last tick of the clock
MaxLookback == 1    \* longest LookbackInterval, in ticks
DayLen == 2         \* ticks in a day
ValWidth == 1       \* declared width of the column `val` in stg and ods
MaxRuns == 2        \* pipeline runs of one behaviour
MaxWrites == 1      \* writes of the source system in one behaviour

PKs == {1, 2}
TextValues == {<<"a", " ">>}
Modes == {"full", "incremental"}
NULL == 0 - 1
EmptyTable == [pk \in {} |-> NULL]

Min(a, b) == IF a < b THEN a ELSE b

\* ---- the two readings of the wall clock: datetime.now() is the local time
\* of the host (update_last_success, and the source system's
\* modification stamps, which the incremental filter compares with it);
\* datetime.utcnow() is UTC (add_technical_columns)
datetime_now == now + utc_offset
datetime_utcnow == now

\* ---- build_where_clause: the lower bound of the incremental filter
FormatStart(start_ts, precision) ==
    IF precision = "date" THEN (start_ts \div DayLen) * DayLen ELSE start_ts

build_where_clause(m) ==
    IF m = "incremental" /\ HasTimestamps /\ LastSuccessTs # NULL
    THEN [bounded |-> TRUE,
          start |-> FormatStart(LastSuccessTs - LookbackInterval, DateModifPrecision)]
    ELSE [bounded |-> FALSE, start |-> NULL]

\* ---- extract_to_parquet: SELECT ... FROM PUB.<table> WHERE <where_clause>
extract(src, wc) ==
    LET keys == {pk \in DOMAIN src : ~wc.bounded \/ src[pk].modif >= wc.start}
    IN  [pk \in keys |-> src[pk]]

\* ---- normalize_dataframe: str.strip() of the text columns
RECURSIVE lstrip(_)
lstrip(v) == IF v # <<>> /\ Head(v) = " " THEN lstrip(Tail(v)) ELSE v

RECURSIVE rstrip(_)
rstrip(v) ==
    IF v # <<>> /\ v[Len(v)] = " " THEN rstrip(SubSeq(v, 1, Len(v) - 1)) ELSE v

strip(v) == rstrip(lstrip(v))

\* mutant: the digest also covers the time of the transform
compute_hashdiff_with_time(pk, val, modif, t) == <<pk, val, modif, t>>

\* ---- compute_hashdiff: the digest of the source columns of the normalised
\* row, in column order; the tuple stands for the digest of their join.
\* t is the time of the transform.
compute_hashdiff(pk, val, modif, t) == <<pk, val, modif>>

\* ---- transform_from_parquet: normalize_dataframe, add_technical_columns
transform(rows, t) ==
    [pk \in DOMAIN rows |->
        LET val == strip(rows[pk].val) IN
        [val |-> val,
         modif |-> rows[pk].modif,
         hashdiff |-> compute_hashdiff(pk, val, rows[pk].modif, t),
         ts_source |-> IF HasTimestamps THEN rows[pk].modif ELSE NULL,
         load_ts |-> t]]

\* ---- load_staging_from_parquet: the rows inserted after the TRUNCATE, text
\* cut to the declared width of its column
staging_rows(rows) ==
    [pk \in DOMAIN rows |->
        [rows[pk] EXCEPT !.val = SubSeq(@, 1, Min(Len(@), ValWidth))]]

\* mutant: WHEN MATCHED THEN UPDATE, whatever the hashdiff
merge_to_ods_always_update(tgt, src, m) ==
    LET base == IF m = "full" THEN EmptyTable ELSE tgt IN
    [pk \in DOMAIN base \cup DOMAIN src |->
        IF pk \in DOMAIN src THEN src[pk] ELSE base[pk]]

\* ---- merge_to_ods: TRUNCATE in full mode, then the MERGE statement
merge_to_ods(tgt, src, m) ==
    LET base == IF m = "full" THEN EmptyTable ELSE tgt IN
    [pk \in DOMAIN base \cup DOMAIN src |->
        IF pk \notin DOMAIN src THEN base[pk]
        ELSE IF pk \notin DOMAIN base THEN src[pk]
        ELSE IF base[pk].hashdiff # src[pk].hashdiff THEN src[pk]
        ELSE base[pk]]

NoSnapshot == [valid |-> FALSE, rows |-> EmptyTable]

dagUnchanged == UNCHANGED <<dagVars, resVars, hashVars, mergeVars, raceVars>>
configUnchanged ==
    UNCHANGED <<LookbackInterval, DateModifPrecision, HasTimestamps,
                table_found, included_found, PrimaryKeyCols, utc_offset>>
countsUnchanged == UNCHANGED <<runs, writes>>

\* the clock is read by the source system when it writes, by the transform
\* (load_ts) and by update_last_success: time passes before one of them
TimeIsRead == flowPc \in {"idle", "returned", "raised", "transform", "bookkeeping"}

\* the pipeline reads the source in its Extract only: the source system
\* writes between two runs or after the Extract of the run in progress
SourceMayWrite == flowPc \in {"idle", "returned", "raised", "transform"}

\* the clock advances
tick ==
    /\ TimeIsRead
    /\ now < MaxClock
    /\ now' = now + 1
    /\ dagUnchanged
    /\ countsUnchanged
    /\ configUnchanged
    /\ UNCHANGED <<source, LastSuccessTs, flowPc, mode, where_clause, raw_cache,
                   transformed_cache, staging, ods, wrote_last_success,
                   source_changed,
                   modified_since_extract, snapshot, unchanged_runs>>

\* the source system inserts or updates a row and stamps it
source_write(pk, v) ==
    /\ SourceMayWrite
    /\ source' = [k \in DOMAIN source \cup {pk} |->
                    IF k = pk THEN [val |-> v, modif |-> datetime_now] ELSE source[k]]
    /\ source' # source
    /\ writes < MaxWrites
    /\ writes' = writes + 1
    /\ UNCHANGED runs
    /\ source_changed' = TRUE
    /\ modified_since_extract' = modified_since_extract \cup {pk}
    /\ snapshot' = NoSnapshot
    /\ unchanged_runs' = 0
    /\ dagUnchanged
    /\ configUnchanged
    /\ UNCHANGED <<now, LastSuccessTs, flowPc, mode, where_clause, raw_cache,
                   transformed_cache, staging, ods, wrote_last_success>>

\* load_flow_simple lines 50-66: a run starts and resolves its configuration
resolve_config(m) ==
    /\ flowPc \in {"idle", "returned", "raised"}
    /\ runs < MaxRuns
    /\ table_found /\ included_found
    /\ runs' = runs + 1
    /\ UNCHANGED writes
    /\ mode' = m
    /\ where_clause' = build_where_clause(m)
    /\ wrote_last_success' = FALSE
    /\ flowPc' = "extract"
    /\ IF m = "full"
       THEN snapshot' = NoSnapshot /\ unchanged_runs' = 0
       ELSE UNCHANGED <<snapshot, unchanged_runs>>
    /\ dagUnchanged
    /\ configUnchanged
    /\ UNCHANGED <<source, now, LastSuccessTs, raw_cache, transformed_cache,
                   staging, ods, source_changed,
                   modified_since_extract>>

\* lines 62-66: get_table_config finds no row for the table, or
\* get_included_columns finds no included column; each raises ValueError,
\* which the handler of lines 153-158 logs and raises again
resolve_config_raises(m) ==
    /\ flowPc \in {"idle", "returned", "raised"}
    /\ runs < MaxRuns
    /\ ~ (table_found /\ included_found)
    /\ runs' = runs + 1
    /\ UNCHANGED writes
    /\ mode' = m
    /\ wrote_last_success' = FALSE
    /\ flowPc' = "raised"
    /\ dagUnchanged /\ configUnchanged
    /\ UNCHANGED <<source, now, LastSuccessTs, where_clause, raw_cache,
                   transformed_cache, staging, ods, source_changed,
                   modified_since_extract, snapshot,
                   unchanged_runs>>

\* lines 68-75
extract_to_parquet ==
    /\ flowPc = "extract"
    /\ raw_cache' = extract(source, where_clause)
    /\ source_changed' = FALSE
    /\ modified_since_extract' = {}
    /\ flowPc' = "transform"
    /\ dagUnchanged
    /\ countsUnchanged
    /\ configUnchanged
    /\ UNCHANGED <<source, now, LastSuccessTs, mode, where_clause,
                   transformed_cache, staging, ods, wrote_last_success,
                   snapshot, unchanged_runs>>

\* lines 77-84
transform_from_parquet ==
    /\ flowPc = "transform"
    /\ transformed_cache' = transform(raw_cache, datetime_utcnow)
    /\ flowPc' = "stage"
    /\ dagUnchanged
    /\ countsUnchanged
    /\ configUnchanged
    /\ UNCHANGED <<source, now, LastSuccessTs, mode, where_clause, raw_cache,
                   staging, ods, wrote_last_success, source_changed,
                   modified_since_extract, snapshot,
                   unchanged_runs>>

\* lines 86-95
load_staging_from_parquet ==
    /\ flowPc = "stage"
    /\ staging' = staging_rows(transformed_cache)
    /\ flowPc' = "merge"
    /\ dagUnchanged
    /\ countsUnchanged
    /\ configUnchanged
    /\ UNCHANGED <<source, now, LastSuccessTs, mode, where_clause, raw_cache,
                   transformed_cache, ods, wrote_last_success, source_changed,
                   modified_since_extract,
                   snapshot, unchanged_runs>>

\* a pipeline that goes on to the merge after a stage load that stopped half way
load_staging_raises_then_merges ==
    /\ flowPc = "stage"
    /\ staging' = EmptyTable
    /\ flowPc' = "merge"
    /\ dagUnchanged
    /\ countsUnchanged
    /\ configUnchanged
    /\ UNCHANGED <<source, now, LastSuccessTs, mode, where_clause, raw_cache,
                   transformed_cache, ods, wrote_last_success, source_changed,
                   modified_since_extract,
                   snapshot, unchanged_runs>>

\* load_staging_from_parquet raises after its TRUNCATE was committed
load_staging_raises ==
    /\ flowPc = "stage"
    /\ staging' = EmptyTable
    /\ flowPc' = "raised"
    /\ dagUnchanged
    /\ countsUnchanged
    /\ configUnchanged
    /\ UNCHANGED <<source, now, LastSuccessTs, mode, where_clause, raw_cache,
                   transformed_cache, ods, wrote_last_success, source_changed,
                   modified_since_extract,
                   snapshot, unchanged_runs>>

\* lines 122-130; merge_to_ods joins on the columns of PrimaryKeyCols, and its
\* statement is not valid SQL when there is none
merge_step ==
    /\ flowPc = "merge"
    /\ PrimaryKeyCols # ""
    /\ ods' = merge_to_ods(ods, staging, mode)
    /\ flowPc' = "bookkeeping"
    /\ dagUnchanged
    /\ countsUnchanged
    /\ configUnchanged
    /\ UNCHANGED <<source, now, LastSuccessTs, mode, where_clause, raw_cache,
                   transformed_cache, staging, wrote_last_success,
                   source_changed,
                   modified_since_extract, snapshot, unchanged_runs>>

\* lines 132-133
update_last_success ==
    /\ flowPc = "bookkeeping"
    /\ IF mode = "incremental"
       THEN LastSuccessTs' = datetime_now /\ wrote_last_success' = TRUE
       ELSE UNCHANGED <<LastSuccessTs, wrote_last_success>>
    /\ flowPc' = "export"
    /\ dagUnchanged
    /\ countsUnchanged
    /\ configUnchanged
    /\ UNCHANGED <<source, now, mode, where_clause, raw_cache, transformed_cache,
                   staging, ods, source_changed,
                   modified_since_extract, snapshot, unchanged_runs>>

\* lines 135-151: the metrics are exported and the run returns
export_and_return ==
    /\ flowPc = "export"
    /\ flowPc' = "returned"
    /\ IF mode = "incremental" /\ ~source_changed
       THEN /\ snapshot' = [valid |-> TRUE, rows |-> ods]
            /\ unchanged_runs' = Min(unchanged_runs + 1, 2)
       ELSE UNCHANGED <<snapshot, unchanged_runs>>
    /\ dagUnchanged
    /\ countsUnchanged
    /\ configUnchanged
    /\ UNCHANGED <<source, now, LastSuccessTs, mode, where_clause, raw_cache,
                   transformed_cache, staging, ods, wrote_last_success,
                   source_changed,
                   modified_since_extract>>

\* lines 153-158: a task raises (in the stage step: ensure_stg_table, before
\* the TRUNCATE of the stage load), or collector.export_to_sql of line 144
\* raises; the handler logs and raises again
step_raises ==
    /\ flowPc \in {"extract", "transform", "stage", "merge", "bookkeeping",
                   "export"}
    /\ flowPc' = "raised"
    /\ dagUnchanged
    /\ countsUnchanged
    /\ configUnchanged
    /\ UNCHANGED <<source, now, LastSuccessTs, mode, where_clause, raw_cache,
                   transformed_cache, staging, ods, wrote_last_success,
                   source_changed,
                   modified_since_extract, snapshot, unchanged_runs>>

\* no pipeline run is in progress and none has run
InitPipeline ==
    /\ flowPc = "idle"
    /\ mode = "incremental"
    /\ where_clause = [bounded |-> FALSE, start |-> NULL]
    /\ raw_cache = EmptyTable
    /\ transformed_cache = EmptyTable
    /\ staging = EmptyTable
    /\ ods = EmptyTable
    /\ LastSuccessTs = NULL
    /\ now = 0
    /\ wrote_last_success = FALSE
    /\ source_changed = FALSE
    /\ modified_since_extract = {}
    /\ snapshot = NoSnapshot
    /\ unchanged_runs = 0
    /\ runs = 0
    /\ writes = 0

\* for the specifications of the scheduler alone
InitLoadIdle ==
    /\ InitPipeline
    /\ source = EmptyTable
    /\ LookbackInterval = 0
    /\ DateModifPrecision = "datetime"
    /\ HasTimestamps = TRUE
    /\ utc_offset = 0
    /\ table_found = TRUE
    /\ included_found = TRUE
    /\ PrimaryKeyCols = "pk"

-----------------------------------------------------------------------------
\* ---- data_cleaning: the text the digest of a row is computed from

MaxText == 1        \* longest text of a source column, in characters

Alphabet == {"a", "|", " "}
Numbers == {1, NULL}

\* a text cell is a sequence of characters; a null text cell is NullCell
NullCell == <<"NULL">>
NoneText == <<"N", "o", "n", "e">>      \* str(None)
NanText == <<"n", "a", "n">>            \* str(float("nan"))

Texts == UNION {[1..k -> Alphabet] : k \in 0..MaxText}
TextCells == Texts \cup {NoneText, NullCell}

\* a row has two text columns and one numeric column
Rows == [c1 : TextCells, c2 : TextCells, n : Numbers]

\* astype(str) of a text cell
astype_str(cell) == IF cell = NullCell THEN NoneText ELSE cell

\* str() of a numeric cell
str_number(n) == IF n = NULL THEN NanText ELSE <<"1">>

\* ---- normalize_dataframe: the numeric column is skipped, the other columns
\* become astype(str).str.strip()
normalize_dataframe(row) ==
    [c1 |-> strip(astype_str(row.c1)),
     c2 |-> strip(astype_str(row.c2)),
     n |-> row.n]

\* ---- compute_hashdiff.hash_row: "|".join(str(v) for v in row.values), of
\* which the SHA1 is taken
hash_row(row) == row.c1 \o <<"|">> \o row.c2 \o <<"|">> \o str_number(row.n)

\* transform_from_parquet, line 12
apply_normalize_dataframe ==
    /\ hashPc = "raw"
    /\ normalized_rows' = [v \in DOMAIN raw_rows |-> normalize_dataframe(raw_rows[v])]
    /\ hashPc' = "normalized"
    /\ UNCHANGED <<raw_rows, hash_inputs>>
    /\ UNCHANGED <<dagVars, loadVars, resVars, mergeVars, raceVars>>

\* add_technical_columns, line 59
apply_compute_hashdiff ==
    /\ hashPc = "normalized"
    /\ hash_inputs' = [v \in DOMAIN normalized_rows |-> hash_row(normalized_rows[v])]
    /\ hashPc' = "hashed"
    /\ UNCHANGED <<raw_rows, normalized_rows>>
    /\ UNCHANGED <<dagVars, loadVars, resVars, mergeVars, raceVars>>

\* no row is being hashed
InitHashIdle ==
    /\ raw_rows = <<>>
    /\ normalized_rows = <<>>
    /\ hash_inputs = <<>>
    /\ hashPc = "hashed"

-----------------------------------------------------------------------------
\* ---- ods_tasks: the destination table as ensure_ods_table creates it, and
\* the MERGE statement on staged rows that may share a key or have none

MaxBatch == 2       \* most rows of one staged batch
MaxMergeRuns == 2   \* runs of one behaviour

KeyCells == {NULL, 1, 2}
ValueCells == {<<"a">>, <<"b">>}

\* the staged row of a source row: the columns and the digest of the transform
staged_row(pk, val) ==
    [pk |-> pk, val |-> val, hashdiff |-> compute_hashdiff(pk, val, 0, 0)]

StagedRows == {staged_row(pk, val) : pk \in KeyCells, val \in ValueCells}

Batches == UNION {[1..k -> StagedRows] : k \in 0..MaxBatch}

\* mutant: a destination table without NOT NULL columns and without
\* primary key
ods_constraints_none(rows) == TRUE

\* ---- ensure_ods_table, lines 30-50: the key columns and hashdiff are NOT
\* NULL, and the key columns are the PRIMARY KEY of the table
ods_constraints(rows) ==
    /\ \A i \in DOMAIN rows : rows[i].pk # NULL /\ rows[i].hashdiff # <<>>
    /\ \A i, j \in DOMAIN rows : rows[i].pk = rows[j].pk => i = j

\* ON tgt.[pk] = src.[pk]: a NULL equals nothing
on_clause(t, r) == t.pk # NULL /\ r.pk # NULL /\ t.pk = r.pk

\* staged rows that are MATCHED with the destination row t and differ from it
\* in hashdiff
updates_of(t, src) ==
    {j \in DOMAIN src : on_clause(t, src[j]) /\ t.hashdiff # src[j].hashdiff}

\* the statement fails when it would update one destination row more than once
updates_once(base, src) ==
    \A i \in DOMAIN base : Cardinality(updates_of(base[i], src)) <= 1

\* ---- merge_to_ods, lines 63-80: the rows of the destination after the
\* TRUNCATE of full mode and the MERGE, before the constraints are checked
merge_statement(tgt, src, m) ==
    LET base == IF m = "full" THEN <<>> ELSE tgt
        updated == [i \in DOMAIN base |->
                        IF updates_of(base[i], src) = {} THEN base[i]
                        ELSE src[CHOOSE j \in updates_of(base[i], src) : TRUE]]
        unmatched(r) == \A i \in DOMAIN base : ~ on_clause(base[i], r)
    IN  updated \o SelectSeq(src, unmatched)

merge_succeeds(tgt, src, m) ==
    /\ updates_once(IF m = "full" THEN <<>> ELSE tgt, src)
    /\ ods_constraints(merge_statement(tgt, src, m))

\* a run extracts, transforms and stages a batch
stage_batch(m, batch) ==
    /\ mergePc \in {"idle", "merged", "raised"}
    /\ merge_runs < MaxMergeRuns
    /\ merge_runs' = merge_runs + 1
    /\ merge_mode' = m
    /\ stg_table' = batch
    /\ mergePc' = "staged"
    /\ UNCHANGED ods_table
    /\ UNCHANGED <<dagVars, loadVars, resVars, hashVars, raceVars>>

\* the transaction of merge_to_ods commits
merge_commits ==
    /\ mergePc = "staged"
    /\ merge_succeeds(ods_table, stg_table, merge_mode)
    /\ ods_table' = merge_statement(ods_table, stg_table, merge_mode)
    /\ mergePc' = "merged"
    /\ UNCHANGED <<stg_table, merge_mode, merge_runs>>
    /\ UNCHANGED <<dagVars, loadVars, resVars, hashVars, raceVars>>

\* a statement of merge_to_ods fails, on a constraint or for another reason:
\* engine.begin() rolls the transaction back, the TRUNCATE included
merge_rolls_back ==
    /\ mergePc = "staged"
    /\ mergePc' = "raised"
    /\ UNCHANGED <<stg_table, ods_table, merge_mode, merge_runs>>
    /\ UNCHANGED <<dagVars, loadVars, resVars, hashVars, raceVars>>

\* no table is being merged
InitMergeIdle ==
    /\ stg_table = <<>>
    /\ ods_table = <<>>
    /\ merge_mode = "incremental"
    /\ mergePc = "idle"
    /\ merge_runs = 0

-----------------------------------------------------------------------------
\* ---- Resilience: CircuitBreaker, retry_with_backoff, the source connection

MaxTime == 6        \* last instant of the breaker's clock
MaxExtracts == 2    \* calls of extract_to_parquet in one behaviour

ExtractTables == {1, 2}

\* the breaker instances there could be: 0 is the module-level
\* _progress_circuit, the others would each belong to one table
Breakers == {0} \cup ExtractTables

NoError == [kind |-> "none", attempt |-> 0]

Max(a, b) == IF a > b THEN a ELSE b

\* ---- extract_to_parquet: exceptions=(pyodbc.Error, pyodbc.OperationalError,
\* ConnectionError), the classes the except clause of the wrapper matches
exceptions == {"pyodbc.Error", "pyodbc.OperationalError", "ConnectionError"}

\* what the body of extract_to_parquet raises once it holds a connection:
\* a driver error, or an error that is not of the driver
BodyErrors == {"pyodbc.Error", "ValueError"}

\* mutant: the except clause matches every exception
is_retryable_any(kind) == TRUE

\* retry_with_backoff: `except exceptions as e`
is_retryable(kind) == kind \in exceptions

\* mutant: the delay grows without a cap
next_delay_uncapped(d, factor, cap) == d * factor

\* retry_with_backoff: delay = min(delay * backoff_factor, max_delay)
next_delay(d, factor, cap) == Min(d * factor, cap)

\* mutant: the time is measured from the start of the process
elapsed_since_start(last, t) == t

\* (datetime.now() - self.state.last_failure_time).total_seconds()
elapsed(last, t) == t - last

\* mutant: an open breaker admits every call
should_attempt_reset_always(last, t, cooldown) == TRUE

\* ---- CircuitBreaker._should_attempt_reset
should_attempt_reset(last, t, cooldown) ==
    IF last = NULL THEN TRUE ELSE elapsed(last, t) >= cooldown

\* mutant: a success clears the failure counter
on_success_reset(st, f) ==
    [state |-> IF st = "half_open" THEN "closed" ELSE st, failures |-> 0]

\* ---- CircuitBreaker._on_success
on_success(st, f) ==
    LET f1 == IF st = "half_open" THEN 0 ELSE f
        s1 == IF st = "half_open" THEN "closed" ELSE st
    IN  [state |-> s1, failures |-> Max(0, f1 - 1)]

\* mutant: the breaker opens one failure after the threshold
on_failure_late(st, f, threshold, t) ==
    [state |-> IF f + 1 > threshold THEN "open" ELSE st,
     failures |-> f + 1, last_failure_time |-> t]

\* mutant: a failed trial call starts the count of failures anew
on_failure_trial_counts_anew(st, f, threshold, t) ==
    LET f1 == IF st = "half_open" THEN 1 ELSE f + 1
    IN  [state |-> IF f1 >= threshold THEN "open" ELSE st,
         failures |-> f1, last_failure_time |-> t]

\* ---- CircuitBreaker._on_failure
on_failure(st, f, threshold, t) ==
    [state |-> IF f + 1 >= threshold THEN "open" ELSE st,
     failures |-> f + 1, last_failure_time |-> t]

\* mutant: one breaker for each table
with_progress_breaker_per_table(table_name) == table_name

\* ---- with_progress_breaker: every call goes to _progress_circuit
with_progress_breaker(table_name) == 0

CurrentBreaker == with_progress_breaker(ext_table)

othersUnchanged ==
    UNCHANGED <<dagVars, loadVars, hashVars, mergeVars, raceVars>>
paramsUnchanged == UNCHANGED <<breakerParams, retryParams>>

\* time passes while the wrapper is about to invoke the function, and while
\* the connection factory runs
clock_tick ==
    /\ extPc \in {"invoke", "connecting"}
    /\ clock < MaxTime
    /\ clock' = clock + 1
    /\ paramsUnchanged /\ othersUnchanged
    /\ UNCHANGED <<breakerVars, extPc, ext_table, attempt, delay, outcome,
                   propagated, sleeps, invocations, connect_calls, cb_prev, streak,
                   call_result, opened_during, opened_at, extracts>>

\* wrapper(*args): delay = initial_delay, the loop starts at attempt 1
extract_call(t) ==
    /\ extPc \in {"idle", "returned", "raised"}
    /\ extracts < MaxExtracts
    /\ extracts' = extracts + 1
    /\ ext_table' = t
    /\ attempt' = 1
    /\ delay' = initial_delay
    /\ outcome' = NoError
    /\ propagated' = NoError
    /\ sleeps' = <<>>
    /\ invocations' = 0
    /\ connect_calls' = 0
    /\ extPc' = "invoke"
    /\ paramsUnchanged /\ othersUnchanged
    /\ UNCHANGED <<breakerVars, clock, cb_prev, streak, call_result, opened_during, opened_at>>

\* func(*args) is invoked and calls get_progress_connection; CircuitBreaker.call
\* finds the breaker open before the cooldown has elapsed and raises
breaker_rejects ==
    /\ extPc = "invoke"
    /\ cb_state[CurrentBreaker] = "open"
    /\ ~should_attempt_reset(last_failure_time[CurrentBreaker], clock, timeout)
    /\ invocations' = invocations + 1
    /\ cb_prev' = "open"
    /\ call_result' = "rejected"
    /\ outcome' = [kind |-> "Exception", attempt |-> attempt]
    /\ extPc' = "caught"
    /\ UNCHANGED streak
    /\ paramsUnchanged /\ othersUnchanged
    /\ UNCHANGED <<breakerVars, clock, ext_table, attempt, delay, propagated,
                   sleeps, connect_calls, opened_during, opened_at, extracts>>

\* func(*args) is invoked and calls get_progress_connection; CircuitBreaker.call
\* lets the call through, as a trial (half_open) if the breaker was open, and
\* calls the connection factory
breaker_admits ==
    /\ extPc = "invoke"
    /\ cb_state[CurrentBreaker] = "open" =>
           should_attempt_reset(last_failure_time[CurrentBreaker], clock, timeout)
    /\ cb_state' = [cb_state EXCEPT
                       ![CurrentBreaker] = IF @ = "open" THEN "half_open" ELSE @]
    /\ cb_prev' = cb_state'[CurrentBreaker]
    /\ invocations' = invocations + 1
    /\ connect_calls' = connect_calls + 1
    /\ call_result' = "pending"
    /\ extPc' = "connecting"
    /\ UNCHANGED streak
    /\ paramsUnchanged /\ othersUnchanged
    /\ UNCHANGED <<failures, last_failure_time, clock, ext_table, attempt,
                   delay, outcome, propagated, sleeps, opened_during, opened_at, extracts>>

\* pyodbc.connect raises; CircuitBreaker.call runs _on_failure and re-raises
connect_fails ==
    /\ extPc = "connecting"
    /\ LET b == CurrentBreaker
           r == on_failure(cb_state[b], failures[b], failure_threshold, clock)
       IN  /\ cb_state' = [cb_state EXCEPT ![b] = r.state]
           /\ failures' = [failures EXCEPT ![b] = r.failures]
           /\ last_failure_time' =
                  [last_failure_time EXCEPT ![b] = r.last_failure_time]
           /\ opened_during' = IF r.state = "open" THEN ext_table
                               ELSE opened_during
           /\ opened_at' = IF r.state = "open" THEN clock ELSE opened_at
    /\ streak' = IF streak = NULL THEN NULL ELSE streak + 1
    /\ call_result' = "failure"
    /\ outcome' = [kind |-> "pyodbc.OperationalError", attempt |-> attempt]
    /\ extPc' = "caught"
    /\ paramsUnchanged /\ othersUnchanged
    /\ UNCHANGED <<clock, ext_table, attempt, delay, propagated, sleeps,
                   invocations, connect_calls, cb_prev, extracts>>

\* pyodbc.connect returns; CircuitBreaker.call runs _on_success
connect_succeeds ==
    /\ extPc = "connecting"
    /\ LET b == CurrentBreaker
           r == on_success(cb_state[b], failures[b])
       IN  /\ cb_state' = [cb_state EXCEPT ![b] = r.state]
           /\ failures' = [failures EXCEPT ![b] = r.failures]
           /\ streak' = IF r.state = "closed" /\ r.failures = 0 THEN 0 ELSE NULL
    /\ opened_during' = 0
    /\ opened_at' = NULL
    /\ call_result' = "success"
    /\ extPc' = "connected"
    /\ paramsUnchanged /\ othersUnchanged
    /\ UNCHANGED <<last_failure_time, clock, ext_table, attempt, delay, outcome,
                   propagated, sleeps, invocations, connect_calls, cb_prev, extracts>>

\* the body of extract_to_parquet returns the path; the wrapper returns it
body_returns ==
    /\ extPc = "connected"
    /\ extPc' = "returned"
    /\ paramsUnchanged /\ othersUnchanged
    /\ UNCHANGED <<breakerVars, clock, ext_table, attempt, delay, outcome,
                   propagated, sleeps, invocations, connect_calls, cb_prev, streak,
                   call_result, opened_during, opened_at, extracts>>

\* the body of extract_to_parquet raises after the connection was made
body_raises(kind) ==
    /\ extPc = "connected"
    /\ outcome' = [kind |-> kind, attempt |-> attempt]
    /\ extPc' = "caught"
    /\ paramsUnchanged /\ othersUnchanged
    /\ UNCHANGED <<breakerVars, clock, ext_table, attempt, delay, propagated,
                   sleeps, invocations, connect_calls, cb_prev, streak, call_result,
                   opened_during, opened_at, extracts>>

\* timeout_decorator: the thread that runs the body is still alive when
\* thread.join(seconds) returns, and the guard raises TimeoutError
timeout_guard_raises ==
    /\ extPc = "connected"
    /\ outcome' = [kind |-> "TimeoutError", attempt |-> attempt]
    /\ extPc' = "caught"
    /\ paramsUnchanged /\ othersUnchanged
    /\ UNCHANGED <<breakerVars, clock, ext_table, attempt, delay, propagated,
                   sleeps, invocations, connect_calls, cb_prev, streak, call_result,
                   opened_during, opened_at, extracts>>

\* except exceptions, attempt < max_attempts: time.sleep(delay), the delay
\* grows, the loop goes to the next attempt
wrapper_retries ==
    /\ extPc = "caught"
    /\ is_retryable(outcome.kind)
    /\ attempt # max_attempts
    /\ clock + delay <= MaxTime
    /\ sleeps' = Append(sleeps, delay)
    /\ clock' = clock + delay
    /\ delay' = next_delay(delay, backoff_factor, max_delay)
    /\ attempt' = attempt + 1
    /\ extPc' = "invoke"
    /\ paramsUnchanged /\ othersUnchanged
    /\ UNCHANGED <<breakerVars, ext_table, outcome, propagated, invocations,
                   connect_calls, cb_prev, streak, call_result, opened_during, opened_at, extracts>>

\* the exception leaves the wrapper: it is not matched by the except clause,
\* or it is and this was the last attempt (`raise`)
wrapper_raises ==
    /\ extPc = "caught"
    /\ ~is_retryable(outcome.kind) \/ attempt = max_attempts
    /\ propagated' = outcome
    /\ extPc' = "raised"
    /\ paramsUnchanged /\ othersUnchanged
    /\ UNCHANGED <<breakerVars, clock, ext_table, attempt, delay, outcome,
                   sleeps, invocations, connect_calls, cb_prev, streak, call_result,
                   opened_during, opened_at, extracts>>

\* CircuitBreaker.__init__ for every instance, and no call of the wrapper yet
InitResilience ==
    /\ cb_state = [b \in Breakers |-> "closed"]
    /\ failures = [b \in Breakers |-> 0]
    /\ last_failure_time = [b \in Breakers |-> NULL]
    /\ clock = 0
    /\ extPc = "idle"
    /\ ext_table = 0
    /\ attempt = 0
    /\ delay = 0
    /\ outcome = NoError
    /\ propagated = NoError
    /\ sleeps = <<>>
    /\ invocations = 0
    /\ connect_calls = 0
    /\ cb_prev = "closed"
    /\ call_result = "none"
    /\ streak = 0
    /\ opened_during = 0
    /\ opened_at = NULL
    /\ extracts = 0

\* ---- CircuitBreaker.call entered by several threads: the class has no lock,
\* and a body that timeout_decorator gave up on keeps running in its thread
\* while the next call is made. Each step below is one uninterrupted piece of
\* call: the test of the state with the move to half_open, and the callback
\* after func.

MaxRaceTime == 2    \* last instant of the clock when threads race
MaxRaceCalls == 3   \* calls of CircuitBreaker.call of one behaviour

Callers == {1, 2}

InFlight == {c \in Callers : callerPc[c] = "in_call"}

race_tick ==
    /\ clock < MaxRaceTime
    /\ clock' = clock + 1
    /\ UNCHANGED <<breakerVars, breakerParams, retryParams, extPc, ext_table,
                   attempt, delay, outcome, propagated, sleeps, invocations,
                   connect_calls, cb_prev, call_result, streak, opened_during,
                   opened_at, extracts>>
    /\ UNCHANGED <<dagVars, loadVars, hashVars, mergeVars, raceVars>>

raceFrame ==
    /\ UNCHANGED <<breakerParams, retryParams, clock, extPc, ext_table, attempt,
                   delay, outcome, propagated, sleeps, invocations,
                   connect_calls, cb_prev, call_result, streak, opened_during,
                   opened_at, extracts>>
    /\ UNCHANGED <<dagVars, loadVars, hashVars, mergeVars>>

\* call, lines 45-53: the breaker is open and the cooldown is not over
caller_rejected(c) ==
    /\ callerPc[c] = "idle"
    /\ race_calls < MaxRaceCalls
    /\ cb_state[0] = "open"
    /\ ~should_attempt_reset(last_failure_time[0], clock, timeout)
    /\ race_calls' = race_calls + 1
    /\ UNCHANGED <<breakerVars, callerPc, admitted_in>>
    /\ raceFrame

\* call, lines 45-57: the thread is let through and enters func
caller_admitted(c) ==
    /\ callerPc[c] = "idle"
    /\ race_calls < MaxRaceCalls
    /\ cb_state[0] = "open" =>
           should_attempt_reset(last_failure_time[0], clock, timeout)
    /\ cb_state' = [cb_state EXCEPT ![0] = IF @ = "open" THEN "half_open" ELSE @]
    /\ callerPc' = [callerPc EXCEPT ![c] = "in_call"]
    /\ admitted_in' = [admitted_in EXCEPT ![c] = cb_state'[0]]
    /\ race_calls' = race_calls + 1
    /\ UNCHANGED <<failures, last_failure_time>>
    /\ raceFrame

\* call, lines 58-59: func returned, _on_success
caller_succeeds(c) ==
    /\ callerPc[c] = "in_call"
    /\ LET r == on_success(cb_state[0], failures[0])
       IN  /\ cb_state' = [cb_state EXCEPT ![0] = r.state]
           /\ failures' = [failures EXCEPT ![0] = r.failures]
    /\ callerPc' = [callerPc EXCEPT ![c] = "idle"]
    /\ admitted_in' = [admitted_in EXCEPT ![c] = "none"]
    /\ UNCHANGED <<last_failure_time, race_calls>>
    /\ raceFrame

\* call, lines 61-63: func raised, _on_failure
caller_fails(c) ==
    /\ callerPc[c] = "in_call"
    /\ LET r == on_failure(cb_state[0], failures[0], failure_threshold, clock)
       IN  /\ cb_state' = [cb_state EXCEPT ![0] = r.state]
           /\ failures' = [failures EXCEPT ![0] = r.failures]
           /\ last_failure_time' =
                  [last_failure_time EXCEPT ![0] = r.last_failure_time]
    /\ callerPc' = [callerPc EXCEPT ![c] = "idle"]
    /\ admitted_in' = [admitted_in EXCEPT ![c] = "none"]
    /\ UNCHANGED race_calls
    /\ raceFrame

\* no thread is calling the breaker
InitRaceIdle ==
    /\ callerPc = [c \in Callers |-> "idle"]
    /\ admitted_in = [c \in Callers |-> "none"]
    /\ race_calls = 0

\* the parameters of _progress_circuit and of the decorator of
\* extract_to_parquet, in seconds; for the specifications that make no Extract
InitResIdle ==
    /\ InitResilience
    /\ failure_threshold = 3
    /\ success_threshold = 2
    /\ timeout = 120
    /\ max_attempts = 3
    /\ initial_delay = 5
    /\ backoff_factor = 2
    /\ max_delay = 60

-----------------------------------------------------------------------------
\* ---- TableNode.can_run
can_run(n, completed_tables) ==
    \A i \in 1..Len(dependencies[n]) : dependencies[n][i] \in completed_tables

\* ---- execute: the level loop

\* key of the sort of one level
PriorityRank(p) == CASE p = "critical" -> 0 [] p = "high" -> 1 [] OTHER -> 2

\* sorted(level_tables, key=...): a stable sort on the priority rank
sorted_tables(level_tables) ==
    SelectSeq(level_tables, LAMBDA t : PriorityRank(cfgPriority[t]) = 0)
    \o SelectSeq(level_tables, LAMBDA t : PriorityRank(cfgPriority[t]) = 1)
    \o SelectSeq(level_tables, LAMBDA t : PriorityRank(cfgPriority[t]) = 2)

CurrentLevel == sorted_tables(levels[level_num])
CurrentNode == CurrentLevel[pos]

\* failed_deps of the node being handled
failed_deps(n) == {d \in Range(dependencies[n]) : d \in failed}

\* the test made when a node has failed, and again at the end of each level
\* mutant: the failure of a critical node never stops the run
stop_after_failure_never(n) == FALSE

stop_after_failure(n) == cfgPriority[n] = "critical" /\ stop_on_critical

stop_requested(st) ==
    (\E n \in Range(nodes) : cfgPriority[n] = "critical" /\ st[n] = "failed")
    /\ stop_on_critical

\* the next (level, position) of the two loops, or the end of execute;
\* st is the status of the nodes at that moment
\* mutant: the level is left after its first node
next_position_leave_level(st) ==
    IF stop_requested(st) \/ level_num = Len(levels)
    THEN [pc |-> "done", level_num |-> level_num, pos |-> pos]
    ELSE [pc |-> "loop", level_num |-> level_num + 1, pos |-> 1]

next_position(st) ==
    IF pos < Len(CurrentLevel)
    THEN [pc |-> "loop", level_num |-> level_num, pos |-> pos + 1]
    ELSE IF stop_requested(st) \/ level_num = Len(levels)
         THEN [pc |-> "done", level_num |-> level_num, pos |-> pos]
         ELSE [pc |-> "loop", level_num |-> level_num + 1, pos |-> 1]

Advance(st) ==
    LET np == next_position(st) IN
    /\ dagPc' = np.pc
    /\ level_num' = np.level_num
    /\ pos' = np.pos

cfgUnchanged ==
    UNCHANGED <<cfgPriority, cfgDependencies, stop_on_critical, loadVars, resVars,
                hashVars, mergeVars, raceVars>>

\* the stages of load_flow_simple whose exception reaches execute_node
FailingStages == {"extract", "load_staging", "merge"}

attemptsUnchanged == UNCHANGED <<load_error, node_sleeps>>

\* execute, lines 253-256, when load_config raises out of _validate_dag
execute_load_config_raises ==
    /\ dagPc = "start"
    /\ validate_dag(QueryRows, cfgDependencies) # "none"
    /\ nodes' = QueryRows
    /\ dependencies' = validate_deps(cfgDependencies, Range(QueryRows))
    /\ raised' = validate_dag(QueryRows, cfgDependencies)
    /\ dagPc' = "raised"
    /\ cfgUnchanged
    /\ attemptsUnchanged
    /\ UNCHANGED <<status, retry_count, levels, level_num, pos, completed, failed,
                   skipped, load_calls, handled>>

\* execute, lines 253-256: load_config, then get_execution_levels
execute_load_config ==
    /\ dagPc = "start"
    /\ validate_dag(QueryRows, cfgDependencies) = "none"
    /\ LET deps == validate_deps(cfgDependencies, Range(QueryRows))
           lv == get_execution_levels(QueryRows, deps)
       IN  /\ nodes' = QueryRows
           /\ dependencies' = deps
           /\ IF lv.error # "none"
              THEN /\ raised' = lv.error
                   /\ dagPc' = "raised"
                   /\ UNCHANGED <<levels, level_num, pos>>
              ELSE /\ levels' = lv.levels
                   /\ level_num' = 1
                   /\ pos' = 1
                   /\ dagPc' = IF lv.levels = <<>> THEN "done" ELSE "loop"
                   /\ UNCHANGED raised
    /\ cfgUnchanged
    /\ attemptsUnchanged
    /\ UNCHANGED <<status, retry_count, completed, failed, skipped, load_calls, handled>>

\* execute, lines 295-301: a dependency of the node is in `failed`
skip_node ==
    /\ dagPc = "loop"
    /\ failed_deps(CurrentNode) # {}
    /\ status' = [status EXCEPT ![CurrentNode] = "skipped"]
    /\ skipped' = skipped \cup {CurrentNode}
    /\ handled' = Append(handled, CurrentNode)
    /\ Advance(status')
    /\ cfgUnchanged
    /\ attemptsUnchanged
    /\ UNCHANGED <<nodes, dependencies, retry_count, levels, completed, failed,
                   raised, load_calls>>

\* execute line 304 and execute_node lines 188-189
execute_node_start ==
    /\ dagPc = "loop"
    /\ failed_deps(CurrentNode) = {}
    /\ status' = [status EXCEPT ![CurrentNode] = "running"]
    /\ handled' = Append(handled, CurrentNode)
    /\ dagPc' = "attempt"
    /\ load_error' = "none"
    /\ node_sleeps' = <<>>
    /\ cfgUnchanged
    /\ UNCHANGED <<nodes, dependencies, retry_count, levels, level_num, pos,
                   completed, failed, skipped, raised, load_calls>>

\* execute_node lines 199-215, then execute lines 306-307
execute_node_success ==
    /\ dagPc = "attempt"
    /\ retry_count[CurrentNode] <= max_retries
    /\ load_calls' = [load_calls EXCEPT ![CurrentNode] = @ + 1]
    /\ status' = [status EXCEPT ![CurrentNode] = "success"]
    /\ completed' = completed \cup {CurrentNode}
    /\ Advance(status')
    /\ load_error' = "none"
    /\ UNCHANGED node_sleeps
    /\ cfgUnchanged
    /\ UNCHANGED <<nodes, dependencies, retry_count, levels, failed, skipped,
                   raised, handled>>

\* execute_node lines 217-221, 236-239: the load raised and a retry is left
execute_node_retry ==
    /\ dagPc = "attempt"
    /\ retry_count[CurrentNode] <= max_retries
    /\ ~(retry_count[CurrentNode] + 1 > max_retries)
    /\ load_calls' = [load_calls EXCEPT ![CurrentNode] = @ + 1]
    /\ retry_count' = [retry_count EXCEPT ![CurrentNode] = @ + 1]
    /\ \E stage \in FailingStages : load_error' = stage
    /\ node_sleeps' = Append(node_sleeps, Power(2, retry_count'[CurrentNode]))
    /\ cfgUnchanged
    /\ UNCHANGED <<nodes, dependencies, status, levels, level_num, pos, completed,
                   failed, skipped, dagPc, raised, handled>>

\* execute_node lines 217-235, then execute lines 308-321: the last attempt raised
execute_node_failed ==
    /\ dagPc = "attempt"
    /\ retry_count[CurrentNode] <= max_retries
    /\ retry_count[CurrentNode] + 1 > max_retries
    /\ load_calls' = [load_calls EXCEPT ![CurrentNode] = @ + 1]
    /\ retry_count' = [retry_count EXCEPT ![CurrentNode] = @ + 1]
    /\ failed' = failed \cup {CurrentNode}
    /\ IF stop_after_failure(CurrentNode)
       THEN \* lines 316-321, then 324-325
            /\ status' = [n \in Tables |->
                            IF n = CurrentNode THEN "failed"
                            ELSE IF n \in Range(nodes) /\ status[n] = "pending"
                                 THEN "skipped" ELSE status[n]]
            /\ skipped' = skipped \cup
                            {n \in Range(nodes) \ {CurrentNode} : status[n] = "pending"}
            /\ dagPc' = "done"
            /\ UNCHANGED <<level_num, pos>>
       ELSE /\ status' = [status EXCEPT ![CurrentNode] = "failed"]
            /\ UNCHANGED skipped
            /\ Advance(status')
    /\ \E stage \in FailingStages : load_error' = stage
    /\ UNCHANGED node_sleeps
    /\ cfgUnchanged
    /\ UNCHANGED <<nodes, dependencies, levels, completed, raised, handled>>

\* the rows of config.ETL_Dependencies, grouped by table, naming tables of S
DependencyRows(S) ==
    {d \in [Tables -> DistinctSeqs(S, MaxDeps)] : SumLen(d, Tables) <= MaxDepRows}

\* the orchestrator as __init__ leaves it
InitOrchestrator ==
    /\ nodes = <<>>
    /\ dependencies = [n \in Tables |-> <<>>]
    /\ status = [n \in Tables |-> "pending"]
    /\ retry_count = [n \in Tables |-> 0]
    /\ levels = <<>>
    /\ level_num = 0
    /\ pos = 0
    /\ completed = {}
    /\ failed = {}
    /\ skipped = {}
    /\ dagPc = "start"
    /\ raised = "none"
    /\ load_calls = [n \in Tables |-> 0]
    /\ handled = <<>>
    /\ load_error = "none"
    /\ node_sleeps = <<>>

\* every dependency row names an active table
InitDag ==
    /\ cfgPriority \in [Tables -> Priorities]
    /\ cfgDependencies \in DependencyRows(Tables)
    /\ stop_on_critical \in BOOLEAN
    /\ InitOrchestrator
    /\ InitLoadIdle
    /\ InitResIdle
    /\ InitHashIdle
    /\ InitMergeIdle
    /\ InitRaceIdle

\* dependency rows may name tables that are not active; the priorities play
\* no part in the validation of the graph
InitValidate ==
    /\ cfgPriority \in [Tables -> {"normal"}]
    /\ cfgDependencies \in DependencyRows(Names)
    /\ stop_on_critical = TRUE
    /\ InitOrchestrator
    /\ InitLoadIdle
    /\ InitResIdle
    /\ InitHashIdle
    /\ InitMergeIdle
    /\ InitRaceIdle

NextDag ==
    \/ execute_load_config_raises
    \/ execute_load_config
    \/ skip_node
    \/ execute_node_start
    \/ execute_node_success
    \/ execute_node_retry
    \/ execute_node_failed

SpecDag == InitDag /\ [][NextDag]_vars

SpecValidate == InitValidate /\ [][NextDag]_vars

\* the scheduler as __init__ leaves it, with an empty configuration
InitDagIdle ==
    /\ cfgPriority = [n \in Tables |-> "normal"]
    /\ cfgDependencies = [n \in Tables |-> <<>>]
    /\ stop_on_critical = TRUE
    /\ InitOrchestrator

\* what config.ETL_Tables and config.ETL_Columns hold for the table: all of
\* it, no primary key, no included column, or nothing at all
ConfigRows ==
    {<<TRUE, TRUE, "pk">>, <<TRUE, TRUE, "">>, <<TRUE, FALSE, "pk">>,
     <<FALSE, FALSE, "">>}

InitLoad ==
    /\ InitPipeline
    /\ source \in UNION {[S -> [val : TextValues, modif : {0}]] : S \in SUBSET PKs}
    /\ HasTimestamps \in BOOLEAN
    \* build_where_clause reads the lookback and the precision of a table with
    \* timestamps only
    /\ LookbackInterval \in IF HasTimestamps THEN 0..MaxLookback ELSE {0}
    /\ DateModifPrecision \in IF HasTimestamps THEN {"date", "datetime"}
                                             ELSE {"datetime"}
    /\ utc_offset \in {0, 1}
    /\ \E row \in ConfigRows :
            /\ table_found = row[1]
            /\ included_found = row[2]
            /\ PrimaryKeyCols = row[3]
    /\ InitDagIdle
    /\ InitResIdle
    /\ InitHashIdle
    /\ InitMergeIdle
    /\ InitRaceIdle

NextLoad ==
    \/ tick
    \/ \E pk \in PKs, v \in TextValues : source_write(pk, v)
    \/ \E m \in Modes : resolve_config(m)
    \/ \E m \in Modes : resolve_config_raises(m)
    \/ extract_to_parquet
    \/ transform_from_parquet
    \/ load_staging_from_parquet
    \/ load_staging_raises
    \/ merge_step
    \/ update_last_success
    \/ export_and_return
    \/ step_raises

SpecLoad == InitLoad /\ [][NextLoad]_vars

\* the breaker and the wrapper over small parameter values; the values of
\* _progress_circuit (3 failures, 2 successes) are among them
InitExtract ==
    /\ InitResilience
    /\ failure_threshold \in {1, 2, 3}
    /\ success_threshold \in {1, 2}
    /\ timeout \in {1, 2}
    /\ max_attempts \in {1, 2, 3}
    /\ initial_delay \in {1, 2}
    /\ backoff_factor \in {1, 2}
    /\ max_delay \in {1, 2, 3}
    /\ InitDagIdle
    /\ InitLoadIdle
    /\ InitHashIdle
    /\ InitMergeIdle
    /\ InitRaceIdle

NextExtract ==
    \/ clock_tick
    \/ \E t \in ExtractTables : extract_call(t)
    \/ breaker_rejects
    \/ breaker_admits
    \/ connect_fails
    \/ connect_succeeds
    \/ body_returns
    \/ \E kind \in BodyErrors : body_raises(kind)
    \/ timeout_guard_raises
    \/ wrapper_retries
    \/ wrapper_raises

SpecExtract == InitExtract /\ [][NextExtract]_vars

\* two versions of one row, of any cells
InitHash ==
    /\ raw_rows \in [1..2 -> Rows]
    /\ normalized_rows = <<>>
    /\ hash_inputs = <<>>
    /\ hashPc = "raw"
    /\ InitDagIdle
    /\ InitLoadIdle
    /\ InitResIdle
    /\ InitMergeIdle
    /\ InitRaceIdle

NextHash ==
    \/ apply_normalize_dataframe
    \/ apply_compute_hashdiff

SpecHash == InitHash /\ [][NextHash]_vars

\* the destination table is created, empty, by ensure_ods_table
InitMerge ==
    /\ InitMergeIdle
    /\ InitDagIdle
    /\ InitLoadIdle
    /\ InitResIdle
    /\ InitHashIdle
    /\ InitRaceIdle

NextMerge ==
    \/ \E m \in Modes, batch \in Batches : stage_batch(m, batch)
    \/ merge_commits
    \/ merge_rolls_back

SpecMerge == InitMerge /\ [][NextMerge]_vars

\* the shared breaker in any state it can be left in, called by two threads
InitRace ==
    /\ InitResilience
    /\ failure_threshold \in {1, 2, 3}
    /\ success_threshold = 2
    /\ timeout \in {1, 2}
    /\ max_attempts = 3
    /\ initial_delay = 5
    /\ backoff_factor = 2
    /\ max_delay = 60
    /\ InitRaceIdle
    /\ InitDagIdle
    /\ InitLoadIdle
    /\ InitHashIdle
    /\ InitMergeIdle

NextRace ==
    \/ race_tick
    \/ \E c \in Callers : caller_rejected(c)
    \/ \E c \in Callers : caller_admitted(c)
    \/ \E c \in Callers : caller_succeeds(c)
    \/ \E c \in Callers : caller_fails(c)

SpecRace == InitRace /\ [][NextRace]_vars

-----------------------------------------------------------------------------
\* ---- Notions the properties of the scheduler are stated with

Terminal(st) == st \in {"success", "failed", "skipped"}

\* the tables a table depends on in one step, among the loaded tables
DirectDeps(deps, n) == Range(deps[n]) \cap Tables

RECURSIVE Closure(_, _, _)
Closure(deps, S, k) ==
    IF k = 0 THEN S
    ELSE Closure(deps, S \cup UNION {DirectDeps(deps, m) : m \in S}, k - 1)

\* the tables n depends on, directly or transitively
Ancestors(deps, n) == Closure(deps, DirectDeps(deps, n), Cardinality(Tables))

HasDirectedCycle(deps) == \E n \in Tables : n \in Ancestors(deps, n)

\* the level of a node in the plan of execute (0 when the plan lacks it)
LevelOf(n) ==
    IF \E k \in 1..Len(levels) : n \in Range(levels[k])
    THEN CHOOSE k \in 1..Len(levels) : n \in Range(levels[k])
    ELSE 0

SetMax(S) == IF S = {} THEN 0 ELSE CHOOSE x \in S : \A y \in S : y <= x

Planned == dagPc \in {"loop", "attempt", "done"}

TierOrder(p) == CASE p = "critical" -> 1 [] p = "high" -> 2 [] p = "normal" -> 3

CriticalFailed ==
    \E n \in Tables : cfgPriority[n] = "critical" /\ status[n] = "failed"

-----------------------------------------------------------------------------
\* C1: a successful merge_to_ods in incremental mode inserts the staged rows
\* whose key the destination lacks, replaces the destination rows whose
\* hashdiff differs by the staged row, leaves the destination rows of equal
\* hashdiff exactly as they were, and leaves every other destination row
\* unchanged.
C1_MergePostcondition ==
    [][(flowPc = "merge" /\ flowPc' = "bookkeeping" /\ mode = "incremental") =>
          /\ DOMAIN ods' = DOMAIN ods \cup DOMAIN staging
          /\ \A pk \in DOMAIN staging :
                /\ pk \notin DOMAIN ods => ods'[pk] = staging[pk]
                /\ (pk \in DOMAIN ods /\ ods[pk].hashdiff # staging[pk].hashdiff) =>
                      ods'[pk] = staging[pk]
                /\ (pk \in DOMAIN ods /\ ods[pk].hashdiff = staging[pk].hashdiff) =>
                      ods'[pk] = ods[pk]
          /\ \A pk \in DOMAIN ods \ DOMAIN staging : ods'[pk] = ods[pk]]_vars

\* C1 witness: an incremental merge has just left one staged row of equal
\* hashdiff with its older load_ts and has written another staged row.
C1_Witness ==
    /\ flowPc = "bookkeeping"
    /\ mode = "incremental"
    /\ \E pk, qk \in DOMAIN staging :
          /\ pk # qk
          /\ ods[pk].hashdiff = staging[pk].hashdiff
          /\ ods[pk].load_ts < staging[pk].load_ts
          /\ ods[qk] = staging[qk]

C3_LastSuccessOnlyAfterSuccess ==
    wrote_last_success => (mode = "incremental" /\ flowPc # "raised")

-----------------------------------------------------------------------------
\* C4: a node that depends, directly or transitively, on a node that ended
\* 'failed' is never attempted and ends 'skipped'; a node is 'running' only
\* when every one of its declared dependencies ended 'success'.
C4_FailedAncestorNeverAttempted ==
    \A n \in Tables :
        /\ status[n] = "running" =>
              \A d \in Range(dependencies[n]) : status[d] = "success"
        /\ (\E a \in Ancestors(dependencies, n) : status[a] = "failed") =>
              /\ load_calls[n] = 0
              /\ status[n] \in {"pending", "skipped"}
              /\ dagPc = "done" => status[n] = "skipped"

\* C5: with stop-on-critical-failure enabled, once a critical node has ended
\* 'failed' no node enters 'running', and every node that was 'pending' when
\* it failed is 'skipped' from then on.
C5_StopOnCriticalFailure ==
    /\ [](stop_on_critical /\ CriticalFailed =>
            \A n \in Tables : Terminal(status[n]))
    /\ [][/\ (stop_on_critical /\ ~CriticalFailed /\ CriticalFailed') =>
                \A n \in Tables : status[n] = "pending" => status'[n] = "skipped"
          /\ (stop_on_critical /\ CriticalFailed) =>
                \A n \in Tables : status'[n] = status[n]]_vars

\* C5 witness: a critical node failed with the flag set, and a node of its own
\* level and a node of a later level were skipped, none of them for a failed
\* dependency.
C5_Witness ==
    /\ stop_on_critical
    /\ \E f, a, b \in Tables :
          /\ cfgPriority[f] = "critical" /\ status[f] = "failed"
          /\ status[a] = "skipped" /\ status[b] = "skipped"
          /\ LevelOf(a) = LevelOf(f) /\ LevelOf(b) > LevelOf(f)
          /\ f \notin Range(dependencies[b])

\* C6: graph validation raises exactly when the declared dependencies contain
\* a directed cycle, and when it raises no load has been invoked and every
\* node is still 'pending'.
C6_RaisesExactlyOnCycle ==
    dagPc # "start" =>
        /\ (raised # "none") <=> HasDirectedCycle(cfgDependencies)
        /\ raised # "none" =>
              \A n \in Tables : status[n] = "pending" /\ load_calls[n] = 0

\* C7: graph validation removes every dependency on a table that is not
\* loaded and raises no error because of such a dependency.
C7_MissingDependenciesRemoved ==
    dagPc # "start" =>
        /\ \A n \in Tables :
              /\ Range(dependencies[n]) = Range(cfgDependencies[n]) \cap Tables
              /\ Len(dependencies[n]) = Cardinality(Range(dependencies[n]))
        /\ raised # "KeyError"

\* C8: for an acyclic graph the levels partition the nodes, every dependency
\* of a node lies in a strictly earlier level, and every node is in the
\* earliest level this allows (level 1 holds the nodes without dependencies).
C8_LevelsEarliestTopological ==
    (dagPc # "start" /\ ~HasDirectedCycle(dependencies)
        /\ \A n \in Tables : Range(dependencies[n]) \subseteq Tables) =>
        /\ Planned
        /\ \A k \in 1..Len(levels) :
              Len(levels[k]) = Cardinality(Range(levels[k]))
        /\ \A n \in Tables :
              /\ Cardinality({k \in 1..Len(levels) : n \in Range(levels[k])}) = 1
              /\ \A d \in Range(dependencies[n]) : LevelOf(d) < LevelOf(n)
              /\ LevelOf(n) =
                    1 + SetMax({LevelOf(d) : d \in Range(dependencies[n])})

\* C8 witness: a plan of three levels, computed after a missing dependency
\* was removed.
C8_Witness ==
    /\ Planned
    /\ Len(levels) = 3
    /\ \E n \in Tables : Range(cfgDependencies[n]) \cap Missing # {}

-----------------------------------------------------------------------------
\* ---- Properties of the circuit breaker and of the retry wrapper

\* the step in which the connection factory raises inside CircuitBreaker.call
FailedCall == extPc = "connecting" /\ extPc' = "caught"

\* the step in which the connection factory returns inside CircuitBreaker.call
SucceededCall == extPc = "connecting" /\ extPc' = "connected"

\* C11: a failed call made while the breaker is closed adds one to the
\* failure counter and opens the breaker exactly when the counter reaches
\* failure_threshold; so from closed with a zero counter the breaker is still
\* closed after fewer than failure_threshold failed calls in a row and open
\* after failure_threshold of them.
C11_TripAtThreshold ==
    /\ [][(FailedCall /\ cb_state[CurrentBreaker] = "closed") =>
             /\ failures'[CurrentBreaker] = failures[CurrentBreaker] + 1
             /\ cb_state'[CurrentBreaker] \in {"closed", "open"}
             /\ cb_state'[CurrentBreaker] = "open" <=>
                    failures'[CurrentBreaker] = failure_threshold]_vars
    /\ [](streak # NULL =>
             /\ streak < failure_threshold =>
                    cb_state[CurrentBreaker] = "closed"
                    /\ failures[CurrentBreaker] = streak
             /\ (streak = failure_threshold /\ call_result = "failure") =>
                    cb_state[CurrentBreaker] = "open")

\* C11 witness: the third failed call in a row, made with the breaker closed
\* and a threshold of 3, has opened the breaker.
C11_Witness ==
    /\ failure_threshold = 3
    /\ streak = 3
    /\ call_result = "failure"
    /\ cb_prev = "closed"
    /\ cb_state[CurrentBreaker] = "open"

\* the step in which the wrapped function is invoked and reaches
\* CircuitBreaker.call
CallAttempt == extPc = "invoke" /\ extPc' # "invoke"

\* the breaker is open and the cooldown has not elapsed since the last failure
InCooldown(b) ==
    /\ cb_state[b] = "open"
    /\ last_failure_time[b] # NULL
    /\ clock - last_failure_time[b] < timeout

\* C12: a call made while the breaker is open and the cooldown has not
\* elapsed fails with the circuit-open error, does not call the wrapped
\* connection factory, and leaves the state, the failure counter and the
\* last-failure time of the breaker as they were.
C12_RejectedCallLeavesBreaker ==
    [][(CallAttempt /\ InCooldown(CurrentBreaker)) =>
          /\ extPc' = "caught"
          /\ outcome'.kind = "Exception"
          /\ call_result' = "rejected"
          /\ connect_calls' = connect_calls
          /\ cb_state' = cb_state
          /\ failures' = failures
          /\ last_failure_time' = last_failure_time]_vars

\* C12 witness: a call has just been rejected, some time after the last
\* failure, and the breaker is still open.
C12_Witness ==
    /\ extPc = "caught"
    /\ call_result = "rejected"
    /\ outcome.kind = "Exception"
    /\ cb_state[CurrentBreaker] = "open"
    /\ last_failure_time[CurrentBreaker] < clock
    /\ connect_calls = 0

\* C13: the breaker leaves `open` only in a call attempt: it stays open while
\* no call is attempted, however much time passes, and it becomes half_open,
\* and nothing else, only in a call attempted at least `timeout` after the
\* last recorded failure; that call invokes the wrapped connection factory.
C13_LazyHalfOpen ==
    [][\A b \in Breakers :
          (cb_state[b] # cb_state'[b] /\
              (cb_state[b] = "open" \/ cb_state'[b] = "half_open")) =>
             /\ cb_state[b] = "open"
             /\ cb_state'[b] = "half_open"
             /\ CallAttempt
             /\ b = CurrentBreaker
             /\ last_failure_time[b] # NULL
             /\ clock - last_failure_time[b] >= timeout
             /\ connect_calls' = connect_calls + 1
             /\ extPc' = "connecting"]_vars

\* C13 witness: the breaker stayed open beyond the cooldown until a call
\* came; that call made it half_open and is calling the connection factory.
C13_Witness ==
    /\ extPc = "connecting"
    /\ cb_state[CurrentBreaker] = "half_open"
    /\ clock - last_failure_time[CurrentBreaker] > timeout
    /\ connect_calls >= 1

\* C14: a call admitted while the breaker is half_open that fails leaves the
\* breaker open with the last-failure time set to the time of that failure,
\* whatever the value of the failure counter.
C14_HalfOpenFailureReopens ==
    [][(FailedCall /\ cb_state[CurrentBreaker] = "half_open") =>
          /\ cb_state'[CurrentBreaker] = "open"
          /\ last_failure_time'[CurrentBreaker] = clock]_vars

\* C14 witness: a trial call has just failed, later than the failure that
\* had opened the breaker, and the breaker is open again.
C14_Witness ==
    /\ extPc = "caught"
    /\ call_result = "failure"
    /\ cb_prev = "half_open"
    /\ cb_state[CurrentBreaker] = "open"
    /\ last_failure_time[CurrentBreaker] = clock
    /\ clock > 0
    /\ failures[CurrentBreaker] > failure_threshold

\* C15: from half_open the breaker returns to closed only after
\* success_threshold successful calls in a row; the breaker becomes half_open
\* in the call that is its first trial, so when success_threshold is more
\* than 1 the success of that call does not close it yet.
C15_ClosesAfterSuccessThreshold ==
    [][(SucceededCall
          /\ cb_state[CurrentBreaker] = "half_open"
          /\ success_threshold > 1) =>
             cb_state'[CurrentBreaker] # "closed"]_vars

\* C16: a successful call made while the breaker is closed lowers the failure
\* counter by exactly one, or leaves it at zero, and leaves the breaker
\* closed; it does not reset a counter above one to zero.
C16_SuccessDecrementsCounter ==
    [][(SucceededCall /\ cb_state[CurrentBreaker] = "closed") =>
          /\ cb_state'[CurrentBreaker] = "closed"
          /\ failures'[CurrentBreaker] =
                IF failures[CurrentBreaker] = 0 THEN 0
                ELSE failures[CurrentBreaker] - 1]_vars

\* C16 witness: a success with the breaker closed has just lowered the
\* counter from 2 to 1.
C16_Witness ==
    /\ extPc = "connected"
    /\ call_result = "success"
    /\ cb_prev = "closed"
    /\ cb_state[CurrentBreaker] = "closed"
    /\ failures[CurrentBreaker] = 1
    /\ Len(sleeps) = 2

\* C17: the breaker is shared by the loads of all tables: once a failed
\* connection during the Extract of one table has left the breaker open,
\* every Extract attempt of any table made before the cooldown has elapsed
\* since that failure is rejected without a call of the connection factory.
C17_SharedBreakerAcrossTables ==
    [][(CallAttempt /\ opened_during # 0 /\ clock - opened_at < timeout) =>
          /\ extPc' = "caught"
          /\ call_result' = "rejected"
          /\ outcome'.kind = "Exception"
          /\ connect_calls' = connect_calls]_vars

\* C17 witness: the Extract of one table has opened the breaker, and the
\* first attempt of the Extract of another table has just been rejected.
C17_Witness ==
    /\ extPc = "caught"
    /\ call_result = "rejected"
    /\ opened_during # 0
    /\ ext_table # opened_during
    /\ clock - opened_at < timeout
    /\ invocations = 1
    /\ connect_calls = 0

\* the wrapper call made at most max_attempts invocations; if it returned,
\* as many sleeps as invocations but one happened; if an exception of the
\* retried classes left it, every attempt was made, one sleep fewer happened,
\* and the exception is that of the last attempt
RetryTrace ==
    /\ invocations <= max_attempts
    /\ extPc = "returned" => Len(sleeps) = invocations - 1
    /\ (extPc = "raised" /\ propagated.kind \in exceptions) =>
          /\ invocations = max_attempts
          /\ Len(sleeps) = max_attempts - 1
          /\ propagated = outcome
          /\ propagated.attempt = max_attempts

\* C18 as stated: RetryTrace, and the i-th sleep of a wrapper call that has
\* ended lasts initial_delay * backoff_factor^(i-1).
C18_RetryTraceUncapped ==
    /\ RetryTrace
    /\ extPc \in {"returned", "raised"} =>
          \A i \in DOMAIN sleeps :
              sleeps[i] = initial_delay * Power(backoff_factor, i - 1)

\* C18, amended: RetryTrace, and when initial_delay is at most max_delay the
\* i-th sleep of a wrapper call lasts
\* min(initial_delay * backoff_factor^(i-1), max_delay).
C18_RetryTrace ==
    /\ RetryTrace
    /\ initial_delay <= max_delay =>
          \A i \in DOMAIN sleeps :
              sleeps[i] = Min(initial_delay * Power(backoff_factor, i - 1),
                              max_delay)

\* C18 witness: two attempts failed and the third returned its result; two
\* sleeps happened, the second cut to max_delay.
C18_Witness ==
    /\ extPc = "returned"
    /\ invocations = 3
    /\ initial_delay <= max_delay
    /\ Len(sleeps) = 2
    /\ sleeps[2] = max_delay
    /\ sleeps[2] < initial_delay * backoff_factor

\* C19: no sleep of the retry wrapper lasts longer than max_delay, whatever
\* the parameters, initial_delay above max_delay included.
C19_SleepAtMostMaxDelay ==
    \A i \in DOMAIN sleeps : sleeps[i] <= max_delay

\* the exception caught by the wrapper is of none of the retried classes
NotRetried == extPc = "caught" /\ outcome.kind \notin exceptions

\* C20: an exception that is of none of the retried classes leaves the
\* wrapper in the next step: no sleep happens, the wrapped function is not
\* invoked again, and the caller gets that same exception; the exception of
\* a rejecting breaker is one of them.
C20_NonRetryablePropagates ==
    /\ [][NotRetried =>
             /\ extPc' = "raised"
             /\ propagated' = outcome
             /\ sleeps' = sleeps
             /\ clock' = clock
             /\ invocations' = invocations
             /\ attempt' = attempt]_vars
    /\ []((extPc = "caught" /\ call_result = "rejected"
              /\ outcome.attempt = attempt) => NotRetried)
    /\ []((extPc = "raised" /\ propagated.kind \notin exceptions) =>
             /\ invocations = propagated.attempt
             /\ Len(sleeps) = invocations - 1)

\* C20 witness: the breaker rejected the first attempt of an Extract that
\* could make more, and its exception has left the wrapper without a sleep.
C20_Witness ==
    /\ extPc = "raised"
    /\ propagated.kind = "Exception"
    /\ call_result = "rejected"
    /\ max_attempts > 1
    /\ invocations = 1
    /\ sleeps = <<>>

-----------------------------------------------------------------------------
\* ---- Properties of the pipeline, of the scheduler's retries and of the
\* ---- hash

\* C21: when the timeout guard has raised TimeoutError for an attempt and
\* attempts remain, the retry loop sleeps and makes a further attempt.
C21_TimeoutIsRetried ==
    [][(extPc = "caught" /\ outcome.kind = "TimeoutError"
          /\ attempt < max_attempts) =>
             /\ extPc' = "invoke"
             /\ attempt' = attempt + 1
             /\ Len(sleeps') = Len(sleeps) + 1]_vars

\* C22: after the stage-load step or the merge step of a table's load has
\* failed, that table's load is not called again in the same run of the
\* scheduler.
C22_DestinationFailureIsTerminal ==
    [][(dagPc = "attempt" /\ load_error \in {"load_staging", "merge"}) =>
          load_calls'[CurrentNode] = load_calls[CurrentNode]]_vars


\* the order of the stages of one run of the pipeline
StageOrder ==
    {<<"extract", "transform">>, <<"transform", "stage">>, <<"stage", "merge">>,
     <<"merge", "bookkeeping">>, <<"bookkeeping", "export">>,
     <<"export", "returned">>}

InRun == {"extract", "transform", "stage", "merge", "bookkeeping", "export"}

\* C23: within one run the stages execute in the order resolve-config, extract,
\* transform, stage-load, merge, bookkeeping: each stage's effect happens at
\* its own position only, the position moves to the next stage or, when the
\* stage fails, to "raised"; after a failure nothing executes but the
\* configuration resolution of a new run, and the merge is entered only by a
\* stage load that wrote the whole transformed batch
C23_StagesInFixedOrder ==
    [][/\ flowPc' # flowPc =>
            \/ <<flowPc, flowPc'>> \in StageOrder
            \/ flowPc \in InRun /\ flowPc' = "raised"
            \/ /\ flowPc \in {"idle", "returned", "raised"}
               /\ flowPc' \in {"extract", "raised"}
               /\ runs' = runs + 1
       /\ runs' # runs => flowPc \notin InRun
       /\ raw_cache' # raw_cache => flowPc = "extract" /\ flowPc' = "transform"
       /\ transformed_cache' # transformed_cache =>
            flowPc = "transform" /\ flowPc' = "stage"
       /\ staging' # staging => flowPc = "stage"
       /\ ods' # ods => flowPc = "merge" /\ flowPc' = "bookkeeping"
       /\ LastSuccessTs' # LastSuccessTs =>
            flowPc = "bookkeeping" /\ flowPc' = "export"
       /\ (flowPc = "stage" /\ flowPc' = "merge") =>
            staging' = staging_rows(transformed_cache)
       /\ (flowPc \in InRun /\ flowPc' = "raised") =>
            /\ ods' = ods
            /\ LastSuccessTs' = LastSuccessTs]_vars

\* a first run that extracted and transformed rows, failed in its stage load
\* with the staging table truncated, and merged nothing
C23_Witness ==
    /\ flowPc = "raised"
    /\ runs = 1
    /\ transformed_cache # EmptyTable
    /\ staging = EmptyTable
    /\ ods = EmptyTable
    /\ LastSuccessTs = NULL

\* the configuration of the table cannot be loaded
ConfigDefect == ~ table_found \/ ~ included_found \/ PrimaryKeyCols = ""

\* C24: when the table is unknown, has no included column or has an empty
\* primary-key list, the run raises during configuration resolution: no run
\* is ever at the Extract or at a later stage
C24_ConfigDefectRaisesBeforeExtract ==
    ConfigDefect => flowPc \in {"idle", "raised"}


\* the two versions differ in the value of a column, a null being a value of
\* its own and text being compared as normalize_dataframe trims it
VersionsDiffer ==
    LET trimmed(row) ==
            [c1 |-> IF row.c1 = NullCell THEN NullCell ELSE strip(row.c1),
             c2 |-> IF row.c2 = NullCell THEN NullCell ELSE strip(row.c2),
             n |-> row.n]
    IN  trimmed(raw_rows[1]) # trimmed(raw_rows[2])

\* C25: two versions of a row that differ in the value of a column give
\* different texts to the digest
C25_HashSensitivity ==
    (hashPc = "hashed" /\ raw_rows # <<>> /\ VersionsDiffer) =>
        hash_inputs[1] # hash_inputs[2]


\* C26: every destination row that has a ts_source was loaded at or after it
C26_LoadTsNotBeforeTsSource ==
    \A pk \in DOMAIN ods :
        ods[pk].ts_source # NULL => ods[pk].load_ts >= ods[pk].ts_source


C28_SchedulerRetryBudget ==
    [][\A n \in Tables :
        /\ (status[n] # "failed" /\ status'[n] = "failed") =>
              /\ dagPc = "attempt" /\ n = CurrentNode
              /\ load_calls'[n] = max_retries + 1
              /\ load_calls[n] = max_retries
              /\ node_sleeps = <<2, 4>>
              /\ node_sleeps' = node_sleeps
        /\ (load_calls'[n] # load_calls[n] /\ status'[n] = "running") =>
              /\ load_calls'[n] = load_calls[n] + 1
              /\ load_calls'[n] <= max_retries
              /\ node_sleeps' = Append(node_sleeps, Power(2, load_calls'[n]))
        /\ (status[n] # "success" /\ status'[n] = "success") =>
              /\ dagPc = "attempt" /\ n = CurrentNode
              /\ load_calls'[n] = load_calls[n] + 1
              /\ node_sleeps' = node_sleeps
        /\ status[n] \in {"success", "failed"} =>
              /\ load_calls'[n] = load_calls[n]
              /\ status'[n] = status[n]
        /\ (dagPc = "attempt" /\ n = CurrentNode /\ status'[n] = "running") =>
              dagPc' = "attempt" /\ pos' = pos /\ level_num' = level_num
       ]_vars

\* a node has failed on its third load, after sleeps of 2 and 4 seconds
C28_Witness ==
    \E n \in Tables :
        /\ status[n] = "failed"
        /\ load_calls[n] = 3
        /\ node_sleeps = <<2, 4>>
        /\ load_error # "none"


\* C29: with threads calling the shared breaker at the same time, at most one
\* call let through by a half-open breaker is inside the guarded function, and
\* a call that was let through as the trial of a half-open breaker and fails
\* leaves the breaker open
C29_SingleTrialInHalfOpen ==
    /\ [](Cardinality({c \in InFlight : admitted_in[c] = "half_open"}) <= 1)
    /\ [][\A c \in Callers :
            (admitted_in[c] = "half_open" /\ callerPc[c] = "in_call"
               /\ callerPc'[c] = "idle"
               /\ failures'[0] = failures[0] + 1) =>
                  cb_state'[0] = "open"]_vars


\* C30: the Extract of an incremental run that follows another run reads every
\* row the source wrote after the Extract of that run
C30_NoSourceChangeLost ==
    [][(flowPc = "extract" /\ flowPc' = "transform" /\ mode = "incremental"
          /\ runs >= 2) =>
             modified_since_extract \subseteq DOMAIN raw_cache']_vars

=============================================================================
